---- MODULE Spec2Model ----
(***************************************************************************)
(* A model of singularity.go: the DNS rebinding responder, its session     *)
(* store, the four rebinding strategies, the expiry sweep, the HTTP        *)
(* catch-all route that latches FirewalledOnce, the packet-filter hijack   *)
(* handler and the dynamic HTTP server of PUT /servers.                    *)
(*                                                                         *)
(* Strings are sequences of one-character strings.  A string produced by   *)
(* net.IP.String() is kept as a record: [kind |-> "ip4"|"ip6", val |->     *)
(* the bytes] for a 4 or 16 byte address, [kind |-> "text", val |-> the    *)
(* characters] for everything else (a name, "?<hex>", "<nil>").            *)
(* Time is counted in whole seconds; 0 is Go's zero time.Time.             *)
(***************************************************************************)
EXTENDS Integers, Sequences, FiniteSets, TLC

(***************************************************************************)
(* Bounds of the model.                                                    *)
(***************************************************************************)
\* the DNS handler goroutines that can run at once
NumHandlers == 2
\* the questions of one DNS message
MaxQuestions == 2
\* the DNS questions, HTTP requests and sweeps of one run
MaxOps == 3
\* the last instant of a run, in seconds
MaxTime == 5
\* the requests IPTablesHandler serves in one run
NumHijacks == 2
\* the last instant of a run of IPTablesHandler, in seconds
MaxHijackTime == 7
\* the PUT /servers handler goroutines that can run at once
NumPuts == 2
\* the PUT /servers requests of one run
MaxPuts == 3
\* the last instant of a run of the route "/" with IPTablesHandler, in seconds
MaxDispatchTime == 10

(***************************************************************************)
(* package strings / encoding/hex, as far as NewDNSQuery uses them.        *)
(***************************************************************************)
HasPrefix(s, p) ==
    /\ Len(s) >= Len(p)
    /\ SubSeq(s, 1, Len(p)) = p

TrimPrefix(s, p) ==
    IF HasPrefix(s, p) THEN SubSeq(s, Len(p) + 1, Len(s)) ELSE s

\* Index of the first occurrence of sep in s at or after position i, 0 if none.
RECURSIVE IndexFrom(_, _, _)
IndexFrom(s, sep, i) ==
    IF i + Len(sep) - 1 > Len(s) THEN 0
    ELSE IF SubSeq(s, i, i + Len(sep) - 1) = sep THEN i
    ELSE IndexFrom(s, sep, i + 1)

\* strings.Replace(s, old, new, -1): left to right, non-overlapping.
RECURSIVE Replace(_, _, _)
Replace(s, old, new) ==
    LET i == IndexFrom(s, old, 1)
    IN  IF i = 0 THEN s
        ELSE SubSeq(s, 1, i - 1) \o new \o
             Replace(SubSeq(s, i + Len(old), Len(s)), old, new)

\* strings.Split(s, sep) for a non-empty sep.
RECURSIVE Split(_, _)
Split(s, sep) ==
    LET i == IndexFrom(s, sep, 1)
    IN  IF i = 0 THEN <<s>>
        ELSE <<SubSeq(s, 1, i - 1)>> \o Split(SubSeq(s, i + Len(sep), Len(s)), sep)

\* strings.Cut(s, sep): <<before, after, found>>.
Cut(s, sep) ==
    LET i == IndexFrom(s, sep, 1)
    IN  IF i = 0 THEN <<s, <<>>, FALSE>>
        ELSE <<SubSeq(s, 1, i - 1), SubSeq(s, i + Len(sep), Len(s)), TRUE>>

ContainsAny(s, chars) == \E i \in 1..Len(s) : s[i] \in chars

UpperCase == <<"A","B","C","D","E","F","G","H","I","J","K","L","M",
               "N","O","P","Q","R","S","T","U","V","W","X","Y","Z">>
LowerCase == <<"a","b","c","d","e","f","g","h","i","j","k","l","m",
               "n","o","p","q","r","s","t","u","v","w","x","y","z">>
DigitChars == <<"0","1","2","3","4","5","6","7","8","9">>

Range(f) == {f[i] : i \in DOMAIN f}

ToLowerChar(c) ==
    IF c \in Range(UpperCase)
    THEN LowerCase[CHOOSE i \in 1..26 : UpperCase[i] = c]
    ELSE c

ToLower(s) == [i \in 1..Len(s) |-> ToLowerChar(s[i])]

HexDigits == <<"0","1","2","3","4","5","6","7","8","9","a","b","c","d","e","f">>

IsHexChar(c) == ToLowerChar(c) \in Range(HexDigits)

HexVal(c) == (CHOOSE i \in 1..16 : HexDigits[i] = ToLowerChar(c)) - 1

\* hex.DecodeString: <<bytes, ok>>; an odd length or a non-hex character fails.
HexDecodeString(s) ==
    IF Len(s) % 2 = 0 /\ \A i \in 1..Len(s) : IsHexChar(s[i])
    THEN <<[i \in 1..(Len(s) \div 2) |-> 16 * HexVal(s[2*i - 1]) + HexVal(s[2*i])], TRUE>>
    ELSE <<<<>>, FALSE>>

HexEncodeByte(b) == <<HexDigits[(b \div 16) + 1], HexDigits[(b % 16) + 1]>>

RECURSIVE HexEncode(_)
HexEncode(bs) ==
    IF bs = <<>> THEN <<>> ELSE HexEncodeByte(Head(bs)) \o HexEncode(Tail(bs))

(***************************************************************************)
(* package net: IP.String, ParseIP and To4 on the string records.          *)
(***************************************************************************)
Text(chars) == [kind |-> "text", val |-> chars]

V4InV6Prefix == <<0,0,0,0,0,0,0,0,0,0,255,255>>

\* net.IP(bytes).String()
IPString(bs) ==
    IF Len(bs) = 0 THEN Text(<<"<","n","i","l",">">>)
    ELSE IF Len(bs) = 4 THEN [kind |-> "ip4", val |-> bs]
    ELSE IF Len(bs) = 16
         THEN IF SubSeq(bs, 1, 12) = V4InV6Prefix
              THEN [kind |-> "ip4", val |-> SubSeq(bs, 13, 16)]
              ELSE [kind |-> "ip6", val |-> bs]
    ELSE Text(<<"?">> \o HexEncode(bs))

\* net.ParseIP(s) # nil
ParsesAsIP(s) == s.kind \in {"ip4", "ip6"}

\* net.ParseIP(s).To4() # nil
IsIPv4(s) == s.kind = "ip4"

(***************************************************************************)
(* golang.IsDomainName: a syntactically valid DNS name.  Labels of         *)
(* letters, digits, '_' and '-' separated by single dots; no empty label,  *)
(* no label over 63 bytes, no '-' right after a dot or right before a dot  *)
(* or the end, at most 253 bytes without the root dot, and at least one    *)
(* letter, '_' or '-'.                                                     *)
(***************************************************************************)
IsLetterChar(c) == c \in Range(LowerCase) \/ c \in Range(UpperCase) \/ c = "_"

IsDigitChar(c) == c \in Range(DigitChars)

RECURSIVE ScanDomainName(_, _, _, _, _)
ScanDomainName(s, i, last, nonNumeric, partlen) ==
    IF i > Len(s)
    THEN last # "-" /\ partlen <= 63 /\ nonNumeric
    ELSE LET c == s[i]
         IN  IF IsLetterChar(c) THEN ScanDomainName(s, i + 1, c, TRUE, partlen + 1)
             ELSE IF IsDigitChar(c) THEN ScanDomainName(s, i + 1, c, nonNumeric, partlen + 1)
             ELSE IF c = "-" THEN last # "." /\ ScanDomainName(s, i + 1, c, TRUE, partlen + 1)
             ELSE IF c = "."
                  THEN /\ last # "." /\ last # "-"
                       /\ partlen <= 63 /\ partlen # 0
                       /\ ScanDomainName(s, i + 1, c, nonNumeric, 0)
             ELSE FALSE

IsDomainName(s) ==
    IF s = <<".">> THEN TRUE
    ELSE IF Len(s) = 0 \/ Len(s) > 254 \/ (Len(s) = 254 /\ s[Len(s)] # ".") THEN FALSE
    ELSE ScanDomainName(s, 1, ".", FALSE, 0)

(***************************************************************************)
(* NewDNSQuery: the query name codec.                                      *)
(*   s-<host1>.<host2>-<session>-<strategy>-e.<suffix>                     *)
(* The result carries err (the empty string when the name parses) and the  *)
(* fields of DNSQuery as the code leaves them.                             *)
(***************************************************************************)
Str_s == <<"s", "-">>
Str_e == <<"-", "e", ".">>
Str_dash == <<"-">>
Str_dashdash == <<"-", "-">>
Str_under == <<"_">>
Str_dot == <<".">>
Str_localhost == <<"l","o","c","a","l","h","o","s","t">>

EmptyDNSQuery ==
    [err |-> "", ResponseIPAddr |-> Text(<<>>), ResponseReboundIPAddr |-> Text(<<>>),
     Session |-> <<>>, DNSRebindingStrategy |-> <<>>, Domain |-> <<>>]

ParseError(name, e) == [name EXCEPT !.err = e]

\* lines 152-193, once the name is split into its three dash-separated fields
NewDNSQueryFields(split2, domainSuffix) ==
    LET cut == Cut(split2[1], Str_dot)
        eleme0 == cut[1]
        eleme1 == cut[2]
        dec0 == HexDecodeString(eleme0)
        dec1 == HexDecodeString(eleme1)
        unescaped == Replace(eleme1, Str_under, Str_dash)
        elem1Str == IF dec1[2] THEN IPString(dec1[1])
                    ELSE IF eleme1 = Str_localhost THEN Text(eleme1)
                    ELSE Text(unescaped)
        name == [EmptyDNSQuery EXCEPT !.ResponseIPAddr = IPString(dec0[1]),
                                      !.ResponseReboundIPAddr = elem1Str,
                                      !.Session = split2[2]]
    IN  IF ~cut[3] THEN ParseError(EmptyDNSQuery, "cannot find attacker and target hosts")
        ELSE IF ~dec0[2]
             THEN ParseError(EmptyDNSQuery, "failed to decode IP address of the first host in DNS query")
        ELSE IF ~dec1[2] /\ eleme1 # Str_localhost /\ ~IsDomainName(unescaped)
             THEN ParseError(EmptyDNSQuery, "cannot parse CNAME of second host in DNS query")
        ELSE IF Len(split2[2]) = 0 THEN ParseError(name, "cannot parse session in DNS query")
        ELSE [name EXCEPT !.DNSRebindingStrategy = split2[3],
                          !.Domain = Str_dot \o domainSuffix]

NewDNSQuery(qname0) ==
    LET qname1 == Replace(qname0, Str_dashdash, Str_under)
        qname == TrimPrefix(qname1, Str_s)
        split1 == Split(qname, Str_e)
        domainSuffix == split1[2]
        split2 == Split(split1[1], Str_dash)
    IN  IF ~HasPrefix(qname1, Str_s)
        THEN ParseError(EmptyDNSQuery, "cannot find start tag in DNS query")
        ELSE IF Len(split1) # 2
             THEN ParseError(EmptyDNSQuery, "cannot find end tag in DNS query")
        ELSE IF Len(domainSuffix) < 3 /\ ~ContainsAny(domainSuffix, {"."})
             THEN ParseError(EmptyDNSQuery, "cannot parse domain in DNS query")
        ELSE IF Len(split2) # 3
             THEN ParseError(EmptyDNSQuery, "cannot parse start of DNS query")
        ELSE NewDNSQueryFields(split2, domainSuffix)

\* The encoder of the name format (the attack page builds these names).
EncodeName(host1, host2, session, strategy, suffix) ==
    Str_s \o host1 \o Str_dot \o host2 \o Str_dash \o session \o Str_dash
          \o strategy \o Str_e \o suffix

(***************************************************************************)
(* The inputs: query names, questions, configurations.                     *)
(***************************************************************************)
Hex_10_0_0_1 == <<"0","a","0","0","0","0","0","1">>
Hex_10_0_0_2 == <<"0","a","0","0","0","0","0","2">>
Suffix == <<"a", ".", "t">>

SessionNames == {<<"x">>, <<"y">>}

\* a name of a QNAME-minimizing resolver
MinimizedName == <<"t", ".">>

TypeA == "A"
TypeAAAA == "AAAA"
TypeTXT == "TXT"

OpcodeQuery == "QUERY"
OpcodeNotify == "NOTIFY"

\* [Name, Qtype] of an encoded question
Q(session, tag, qtype) ==
    [Name |-> EncodeName(Hex_10_0_0_1, Hex_10_0_0_2, session, tag, Suffix), Qtype |-> qtype]

Questions ==
    {Q(<<"x">>, <<"f","s">>, TypeA),
     Q(<<"x">>, <<"r","r">>, TypeA), Q(<<"y">>, <<"r","r">>, TypeA),
     Q(<<"x">>, <<"m","a">>, TypeA),
     Q(<<"x">>, <<"r","d">>, TypeAAAA),
     [Name |-> MinimizedName, Qtype |-> TypeA],
     [Name |-> MinimizedName, Qtype |-> TypeTXT]}

(***************************************************************************)
(* A wider choice of questions: names in upper case, tags and hosts of     *)
(* every kind the codec accepts, and names it rejects.                     *)
(***************************************************************************)
Hex_fd00_1 ==
    <<"f","d","0","0","0","0","0","0","0","0","0","0","0","0","0","0",
      "0","0","0","0","0","0","0","0","0","0","0","0","0","0","0","1">>
Host_name == <<"h", ".", "t">>
Tag_fs == <<"f", "s">>
Tag_ma == <<"m", "a">>
Tag_zz == <<"z", "z">>

\* [Name, Qtype] of an A question of session x for the two hosts and the tag
QX(host1, host2, tag) ==
    [Name |-> EncodeName(host1, host2, <<"x">>, tag, Suffix), Qtype |-> TypeA]

\* the fs question of session x as a resolver that randomizes the case sends it
UpperCaseName ==
    <<"S", "-">> \o <<"0", "A", "0", "0", "0", "0", "0", "1">> \o Str_dot \o Hex_10_0_0_2
        \o <<"-", "X", "-", "F", "S", "-", "E", ".", "A", ".", "T">>

\* names that NewDNSQuery accepts
AcceptedQuestions ==
    {QX(Hex_10_0_0_1, Hex_10_0_0_2, Tag_zz),
     [Name |-> UpperCaseName, Qtype |-> TypeA],
     QX(Hex_10_0_0_1, Str_localhost, Tag_ma),
     QX(Hex_10_0_0_1, Host_name, Tag_ma),
     QX(Hex_10_0_0_1, Hex_fd00_1, Tag_ma),
     QX(<<"0", "a">>, Hex_10_0_0_2, Tag_fs),
     QX(Hex_10_0_0_1, <<>>, Tag_fs)}

\* a name with "s-" but without "-e."
Name_NoEndTag ==
    Str_s \o Hex_10_0_0_1 \o Str_dot \o Hex_10_0_0_2 \o <<"-", "x", "-", "f", "s", ".">> \o Suffix
\* a name with two dash-separated fields
Name_TwoFields ==
    Str_s \o Hex_10_0_0_1 \o Str_dot \o Hex_10_0_0_2 \o <<"-", "x">> \o Str_e \o Suffix
\* a name whose first field has no dot between the hosts
Name_OneHost == Str_s \o Hex_10_0_0_1 \o <<"-", "x", "-", "f", "s">> \o Str_e \o Suffix
\* a name whose first host is not hexadecimal
Name_BadFirstHost == EncodeName(<<"z", "z">>, Hex_10_0_0_2, <<"x">>, Tag_fs, Suffix)
\* a name whose second host is no hexadecimal string, not localhost and no domain name
Name_BadSecondHost == EncodeName(Hex_10_0_0_1, <<".", "h">>, <<"x">>, Tag_fs, Suffix)
\* a name whose suffix is shorter than three bytes and has no dot
Name_ShortSuffix == EncodeName(Hex_10_0_0_1, Hex_10_0_0_2, <<"x">>, Tag_fs, <<"a", "t">>)

RejectedNames ==
    {Name_NoEndTag, Name_TwoFields, Name_OneHost, Name_BadFirstHost, Name_BadSecondHost,
     Name_ShortSuffix}

RejectedQuestions == {[Name |-> n, Qtype |-> TypeA] : n \in RejectedNames}

WideQuestions ==
    (Questions \ {Q(<<"y">>, <<"r","r">>, TypeA)}) \cup AcceptedQuestions \cup RejectedQuestions

\* the questions of Questions with one name that the codec rejects in the place of one
RejectQuestions ==
    (Questions \ {Q(<<"y">>, <<"r","r">>, TypeA)})
        \cup {[Name |-> Name_BadFirstHost, Qtype |-> TypeA]}

\* the Host headers of the HTTP requests
Host_plain == <<"a", ".", "t">>

HTTPHosts ==
    {EncodeName(Hex_10_0_0_1, Hex_10_0_0_2, <<"x">>, tag, Suffix) :
        tag \in {<<"m","a">>, <<"f","s">>}} \cup {Host_plain}

\* strings.ToLower and NewDNSQuery on the names of the model, computed once
InputNames == {q.Name : q \in Questions \cup WideQuestions} \cup HTTPHosts

LowerName == [n \in InputNames |-> ToLower(n)]

Decoded == [n \in InputNames \cup {LowerName[m] : m \in InputNames} |-> NewDNSQuery(n)]

\* AppConfig, immutable after start
Timeouts == {2}
ResponseIPs == {IPString(<<10, 0, 0, 1>>)}
\* -responseIPAddr given as an IPv4 address, an IPv6 address, or not as an address
WideResponseIPs ==
    ResponseIPs \cup {IPString(<<253,0,0,0,0,0,0,0,0,0,0,0,0,0,0,1>>), Text(<<"n", "o">>)}
DefaultStrategies == {"rr"}
Peers == {"192.0.2.1", "192.0.2.9"}
IgnoreLists == {{"192.0.2.9"}}
SweepAges == {0, 3}

\* the instants at which the model looks at the clock, in seconds
TimePoints == {1, 2, MaxTime}

(***************************************************************************)
(* The state.                                                              *)
(***************************************************************************)
VARIABLES
    clock,      \* the wall clock, in seconds (time.Now())
    appConfig,  \* AppConfig
    questions,  \* the questions that the resolvers of this run put in their messages
    Sessions,   \* dcss.Sessions: session id -> pointer to a DNSClientState
    heap,       \* the DNSClientState objects, by pointer
    lockLeak,   \* dcss's RWMutex: "none", or the mode a panicked handler left it locked in
    crashed,    \* the process died on a panic of a DNS handler goroutine
    dns,        \* the locals of each DNS handler goroutine
    http,       \* the locals of the HTTP "/" handler goroutine
    sweeper,    \* the expiry task: the call of ExpireOldEntries it has just made
    ops,        \* the DNS questions, HTTP requests and sweeps handled so far
    ipt,        \* the packet filter and the goroutines of IPTablesHandler
    hss,        \* the HTTPServerStoreHandler and the goroutines of PUT /servers
    codec       \* a record put through the name codec: encoded, then decoded

vars == <<clock, appConfig, questions, Sessions, heap, lockLeak, crashed, dns, http, sweeper,
          ops, ipt, hss, codec>>

Handlers == 1..NumHandlers

ZeroTime == 0

\* time.Duration saturates: t.Sub(zero time) is the maximal duration
MaxDuration == 2147483647

\* &DNSClientState{}
ZeroClientState ==
    [FirstQueryTime |-> ZeroTime, LastQueryTime |-> ZeroTime, CurrentQueryTime |-> ZeroTime,
     ResponseIPAddr |-> Text(<<>>), ResponseReboundIPAddr |-> Text(<<>>),
     LastResponseReboundIPAddr |-> 0, ResponseReboundIPAddrtimeOut |-> 0,
     FirewalledOnce |-> FALSE]

NoQuestion == [Name |-> <<>>, Qtype |-> ""]

\* a handler goroutine that is not running; wrote keeps what the last run wrote
IdleHandler ==
    [pc |-> "idle", now |-> ZeroTime, clientState |-> 0, rebindingFn |-> "",
     peer |-> "", nq |-> 0, q |-> NoQuestion, name |-> EmptyDNSQuery,
     keyExists |-> FALSE, LastResponseReboundIPAddr |-> 0, hosts |-> <<>>,
     answers |-> <<>>, mAnswer |-> <<>>, wrote |-> <<>>]

IdleHTTP ==
    [pc |-> "idle", name |-> EmptyDNSQuery, elapsed |-> 0, served |-> "none"]

IdleSweeper == [pc |-> "idle", duration |-> 0, at |-> ZeroTime, deleted |-> {}]

\* a goroutine of IPTablesHandler that has no request; timer is the goroutine that
\* removes the rule: "none", "sleeping" until wakeAt, or "done"; session is the
\* session in the Host header of the request when the route "/" passed it on
IdleHijack ==
    [pc |-> "idle", flow |-> "", timer |-> "none", wakeAt |-> ZeroTime,
     added |-> FALSE, removed |-> FALSE, conn |-> "", session |-> <<>>]

HijackRequests == 1..NumHijacks

\* no rule in the packet filter, no request in the handler
NoHijack == [rules |-> {}, req |-> [r \in HijackRequests |-> IdleHijack]]

\* the ports of the static servers and the ports a PUT may ask for
StaticPorts == {8080}

Ports == {8080, 3000, 3001}

\* a goroutine of PUT /servers that has no request; status is what the last one answered
IdlePut == [pc |-> "idle", port |-> 0, server |-> 0, status |-> 0]

PutHandlers == 1..NumPuts

\* the store of HTTP servers before any PUT: DynamicServers[0] is nil (0), the static
\* servers listen; servers holds every http.Server made by a PUT, by number
EmptyStore ==
    [AllowDynamicHTTPServers |-> TRUE,
     DynamicServers |-> 0,
     StaticServers |-> StaticPorts,
     servers |-> <<>>,
     put |-> [r \in PutHandlers |-> IdlePut],
     puts |-> 0]

\* a record of the codec: the two hosts, the session, the tag and the suffix; host2 is
\* an address, given by its bytes in ip, or a name, given by its characters in name
NoRecord ==
    [ip1 |-> <<>>, host2 |-> [kind |-> "name", ip |-> <<>>, name |-> <<>>],
     session |-> <<>>, strategy |-> <<>>, suffix |-> <<>>]

\* nothing is put through the codec
NoCodec == [pc |-> "none", rec |-> NoRecord, qname |-> <<>>, name |-> EmptyDNSQuery]

\* time.Now(): the clock is read at an instant of the model not before the last reading
Now(t) == t \in TimePoints /\ t >= clock

\* t.Sub(u), in seconds
Sub(t, u) == IF u = ZeroTime /\ t # ZeroTime THEN MaxDuration ELSE t - u

\* dcss.Sessions[session] with the pointer followed; defined when the key exists
Session(s) == heap[Sessions[s]]

HasSession(s) == s \in DOMAIN Sessions

\* the objects still referenced: Go's garbage collector frees the others
Live(sess, d) ==
    {sess[k] : k \in DOMAIN sess} \cup
    {d[h].clientState : h \in {g \in Handlers : d[g].pc \notin {"idle", "done"}}}

Collect(hp, sess, d) == [p \in (DOMAIN hp) \cap Live(sess, d) |-> hp[p]]

\* new(DNSClientState): the first free address
NewPtr == CHOOSE p \in 1..(Cardinality(DOMAIN heap) + 1) :
              /\ p \notin DOMAIN heap
              /\ \A r \in 1..(p - 1) : r \in DOMAIN heap

Init ==
    /\ clock = 1
    /\ appConfig \in [ResponseIPAddr : ResponseIPs,
                      RebindingFnName : DefaultStrategies,
                      IgnoreDNSRequestFrom : IgnoreLists,
                      ResponseReboundIPAddrtimeOut : Timeouts]
    /\ questions = Questions
    /\ Sessions = [k \in {} |-> 0]
    /\ heap = [p \in {} |-> ZeroClientState]
    /\ lockLeak = "none"
    /\ crashed = FALSE
    /\ dns = [h \in Handlers |-> IdleHandler]
    /\ http = IdleHTTP
    /\ sweeper = IdleSweeper
    /\ ops = 0
    /\ ipt = NoHijack
    /\ hss = EmptyStore
    /\ codec = NoCodec

(***************************************************************************)
(* The rebinding strategies.  Each is given the session id and reads the   *)
(* store under the read lock; the value is the answer list.  They are      *)
(* called only where the session exists: on a missing key the code         *)
(* dereferences a nil pointer (see MissingSession).                         *)
(***************************************************************************)
\* lines 214-228
DNSRebindFromQueryFirstThenSecond(session) ==
    LET elapsed == Sub(Session(session).CurrentQueryTime, Session(session).LastQueryTime)
        timeOut == Session(session).ResponseReboundIPAddrtimeOut
    IN  IF elapsed < timeOut
        THEN <<Session(session).ResponseReboundIPAddr>>
        ELSE <<Session(session).ResponseIPAddr>>

\* lines 233-244: the two hosts rand.Intn picks from
DNSRebindFromQueryRandom(session) ==
    {<<Session(session).ResponseIPAddr>>, <<Session(session).ResponseReboundIPAddr>>}

\* lines 260-267: the switch on the index read from the session
NextRoundRobinIndex(i) ==
    CASE i = 0 -> 1
      [] i = 1 -> 2
      [] i = 2 -> 1
      [] OTHER -> i

\* DNSRebindFromQueryMultiA with the two records in the other order
DNSRebindFromQueryMultiA_Swapped(session) ==
    IF Session(session).FirewalledOnce
    THEN <<Session(session).ResponseReboundIPAddr>>
    ELSE <<Session(session).ResponseReboundIPAddr, Session(session).ResponseIPAddr>>

\* lines 281-293
DNSRebindFromQueryMultiA(session) ==
    IF Session(session).FirewalledOnce
    THEN <<Session(session).ResponseReboundIPAddr>>
    ELSE <<Session(session).ResponseIPAddr, Session(session).ResponseReboundIPAddr>>

\* the keys of the map DNSRebindingStrategy, lines 31-36
KnownStrategies == {"rr", "fs", "rd", "ma"}

TagName(tag) ==
    CASE tag = <<"r","r">> -> "rr"
      [] tag = <<"f","s">> -> "fs"
      [] tag = <<"r","d">> -> "rd"
      [] tag = <<"m","a">> -> "ma"
      [] OTHER -> "?"

(***************************************************************************)
(* The serialization of one answer, lines 411-442.  A resource record is   *)
(* [Name, TTL, Type, Data]; err is TRUE for the type mismatch.             *)
(***************************************************************************)
RR(question, ttl, type, data) == [Name |-> question, TTL |-> ttl, Type |-> type, Data |-> data]

\* respond() without its additionalRecord branch: every mismatch is an error
respond_NoAdditional(qtype, question, time, answer, additionalRecord) ==
    IF ParsesAsIP(answer)
    THEN LET recordType == IF IsIPv4(answer) THEN "A" ELSE "AAAA"
             isMatch == (recordType = "AAAA" /\ qtype = TypeAAAA)
                           \/ (recordType = "A" /\ qtype = TypeA)
         IN  IF isMatch
             THEN [err |-> FALSE, rr |-> RR(question, time, recordType, answer)]
             ELSE [err |-> TRUE, rr |-> RR(<<>>, 0, "", answer)]
    ELSE [err |-> FALSE, rr |-> RR(question, 10, "CNAME", answer)]

respond(qtype, question, time, answer, additionalRecord) ==
    IF ParsesAsIP(answer)
    THEN LET recordType == IF IsIPv4(answer) THEN "A" ELSE "AAAA"
             isMatch == (recordType = "AAAA" /\ qtype = TypeAAAA)
                           \/ (recordType = "A" /\ qtype = TypeA)
         IN  IF isMatch \/ additionalRecord
             THEN [err |-> FALSE, rr |-> RR(question, time, recordType, answer)]
             ELSE [err |-> TRUE, rr |-> RR(<<>>, 0, "", answer)]
    ELSE [err |-> FALSE, rr |-> RR(question, 10, "CNAME", answer)]

\* lines 444-469: the records of one question, or the abort
Responses(qtype, question, answers) ==
    IF Len(answers) = 1
    THEN LET res == respond(qtype, question, 0, answers[1], FALSE)
         IN  [err |-> res.err, response |-> IF res.err THEN <<>> ELSE <<res.rr>>]
    ELSE LET res1 == respond(qtype, question, 10, answers[1], TRUE)
             res2 == respond(qtype, question, 0, answers[2], TRUE)
         IN  [err |-> res1.err \/ res2.err,
              response |-> IF res1.err \/ res2.err THEN <<>> ELSE <<res1.rr, res2.rr>>]

(***************************************************************************)
(* The DNS handler, lines 320-489.  One goroutine per message.  A step is  *)
(* one critical section of the store lock together with the goroutine's    *)
(* local code before it; the unlocked writes to the handler's              *)
(* DNSClientState are steps of their own once that object is in the store  *)
(* (an earlier question of the message inserted it), because other         *)
(* goroutines then read it.  The questions of the message are drawn as the *)
(* loop reaches them.                                                      *)
(***************************************************************************)
\* A goroutine that has returned is taken away before anything else happens: its
\* return is local, so this loses no behaviour, and its result is there to see.
Running ==
    /\ ~crashed
    /\ \A h \in Handlers : dns[h].pc # "done"
    /\ http.pc # "done"
    /\ sweeper.pc # "done"

Reap ==
    /\ ~crashed
    /\ ~Running
    /\ dns' = [h \in Handlers |-> IF dns[h].pc = "done" THEN IdleHandler ELSE dns[h]]
    /\ http' = IF http.pc = "done" THEN IdleHTTP ELSE http
    /\ sweeper' = IF sweeper.pc = "done" THEN IdleSweeper ELSE sweeper
    /\ UNCHANGED <<clock, appConfig, questions, Sessions, heap, lockLeak, crashed, ops, ipt, hss, codec>>

\* lines 295-315
addrInIPAddressList(addr, ips) == addr \in ips

\* the handler returns; written is <<>> or holds the one message it wrote
Finish(h, d, written) ==
    [d EXCEPT ![h] = [IdleHandler EXCEPT !.pc = "done", !.wrote = written]]

\* the handler's DNSClientState is reachable through the store
Published(p) == \E k \in DOMAIN Sessions : Sessions[k] = p

\* goroutines are interchangeable: a message takes the first free one
FirstFree(h) ==
    /\ dns[h].pc = "idle"
    /\ \A g \in 1..(h - 1) : dns[g].pc # "idle"

\* lines 321-332: a message arrives; now is read from a clock that may have moved on
Receive(h) ==
    /\ Running
    /\ FirstFree(h)
    /\ ops < MaxOps
    /\ Now(clock')
    /\ \E peer \in Peers, opcode \in {OpcodeQuery, OpcodeNotify} :
          IF opcode = OpcodeQuery
          THEN /\ dns' = [dns EXCEPT ![h] =
                            [IdleHandler EXCEPT !.pc = "loop",
                                                !.now = clock',
                                                !.clientState = NewPtr,
                                                !.rebindingFn = appConfig.RebindingFnName,
                                                !.peer = peer]]
               /\ heap' = [p \in DOMAIN heap \cup {NewPtr} |->
                             IF p = NewPtr THEN ZeroClientState ELSE heap[p]]
          ELSE /\ dns' = Finish(h, dns, << <<>> >>)
               /\ heap' = heap
    /\ UNCHANGED <<appConfig, questions, Sessions, lockLeak, crashed, http, sweeper, ops, ipt, hss, codec>>

\* line 333 falls out of the loop, line 487 writes the reply
EndOfMessage(h) ==
    /\ Running
    /\ dns[h].pc = "loop"
    /\ dns' = Finish(h, dns, <<dns[h].mAnswer>>)
    /\ heap' = Collect(heap, Sessions, dns')
    /\ UNCHANGED <<clock, appConfig, questions, Sessions, lockLeak, crashed, http, sweeper, ops, ipt, hss, codec>>

\* lines 334-335: a question of another type is passed over
SkipQuestion(h) ==
    /\ Running
    /\ dns[h].pc = "loop"
    /\ dns[h].nq < MaxQuestions
    /\ ops < MaxOps
    /\ ops' = ops + 1
    /\ \E q \in questions : q.Qtype \notin {TypeA, TypeAAAA}
    /\ dns' = [dns EXCEPT ![h].nq = @ + 1]
    /\ UNCHANGED <<clock, appConfig, questions, Sessions, heap, lockLeak, crashed, http, sweeper, ipt, hss, codec>>

\* lines 338-341: the peer is on the ignore list
IgnoreQuestion(h) ==
    /\ Running
    /\ dns[h].pc = "loop"
    /\ dns[h].nq < MaxQuestions
    /\ ops < MaxOps
    /\ ops' = ops + 1
    /\ \E q \in questions : q.Qtype \in {TypeA, TypeAAAA}
    /\ addrInIPAddressList(dns[h].peer, appConfig.IgnoreDNSRequestFrom)
    /\ dns' = Finish(h, dns, <<>>)
    /\ heap' = Collect(heap, Sessions, dns')
    /\ UNCHANGED <<clock, appConfig, questions, Sessions, lockLeak, crashed, http, sweeper, ipt, hss, codec>>

\* MinimizedRecord with the record type taken from the question
MinimizedRecord_ByQtype(q, ip) == RR(q.Name, 0, q.Qtype, ip)

\* lines 355-364: the record for response_ip, its type by the family of the address
MinimizedRecord(q, ip) == RR(q.Name, 0, IF IsIPv4(ip) THEN "A" ELSE "AAAA", ip)

\* lines 345-374: the answer to a name that does not begin with "s-"
MinimizedQuestion(h) ==
    /\ Running
    /\ dns[h].pc = "loop"
    /\ dns[h].nq < MaxQuestions
    /\ ops < MaxOps
    /\ ops' = ops + 1
    /\ ~addrInIPAddressList(dns[h].peer, appConfig.IgnoreDNSRequestFrom)
    /\ \E q \in questions :
        /\ q.Qtype \in {TypeA, TypeAAAA}
        /\ ~HasPrefix(LowerName[q.Name], Str_s)
        /\ dns' = [(IF ParsesAsIP(appConfig.ResponseIPAddr)
                    THEN Finish(h, dns,
                           <<Append(dns[h].mAnswer,
                                    MinimizedRecord(q, appConfig.ResponseIPAddr))>>)
                    ELSE Finish(h, dns, <<>>)) EXCEPT ![h].q = q]
    /\ heap' = Collect(heap, Sessions, dns')
    /\ UNCHANGED <<clock, appConfig, questions, Sessions, lockLeak, crashed, http, sweeper, ipt, hss, codec>>

\* PrepareClientState without the assignment of FirstQueryTime
PrepareClientState_NoFirst(cs, now, timeOut) ==
    [cs EXCEPT !.CurrentQueryTime = now,
               !.ResponseReboundIPAddrtimeOut = timeOut]

\* lines 376-379: the unlocked writes to the handler's DNSClientState
PrepareClientState(cs, now, timeOut) ==
    [cs EXCEPT !.FirstQueryTime = now,
               !.CurrentQueryTime = now,
               !.ResponseReboundIPAddrtimeOut = timeOut]

\* lines 391-392
FillHosts(cs, name) ==
    [cs EXCEPT !.ResponseIPAddr = name.ResponseIPAddr,
               !.ResponseReboundIPAddr = name.ResponseReboundIPAddr]

\* lines 393-395: the per-query override of the strategy
SelectStrategy(current, tag) ==
    IF TagName(tag) \in KnownStrategies THEN TagName(tag) ELSE current

\* lines 398-404: the store after the insertion of a new key
Inserted(session, p) ==
    IF HasSession(session) THEN Sessions
    ELSE [k \in DOMAIN Sessions \cup {session} |-> IF k = session THEN p ELSE Sessions[k]]

\* lines 381-387: the name does not parse, the handler returns without writing
RejectName(h, q) ==
    /\ Decoded[LowerName[q.Name]].err # ""
    /\ dns' = [Finish(h, dns, <<>>) EXCEPT ![h].q = q]
    /\ heap' = Collect(heap, Sessions, dns')
    /\ UNCHANGED Sessions

\* lines 333-405 for an encoded name while the handler's DNSClientState is its own
EncodedQuestion(h) ==
    /\ Running
    /\ dns[h].pc = "loop"
    /\ dns[h].nq < MaxQuestions
    /\ ops < MaxOps
    /\ ops' = ops + 1
    /\ ~addrInIPAddressList(dns[h].peer, appConfig.IgnoreDNSRequestFrom)
    /\ ~Published(dns[h].clientState)
    /\ \E q \in questions :
        /\ q.Qtype \in {TypeA, TypeAAAA}
        /\ HasPrefix(LowerName[q.Name], Str_s)
        /\ LET name == Decoded[LowerName[q.Name]]
               session == name.Session
           IN  \/ RejectName(h, q)
               \/ /\ name.err = ""
                  /\ lockLeak = "none"
                  /\ dns' = [dns EXCEPT ![h].pc = "strategy",
                                        ![h].q = q,
                                        ![h].nq = @ + 1,
                                        ![h].name = name,
                                        ![h].rebindingFn =
                                            SelectStrategy(@, name.DNSRebindingStrategy),
                                        ![h].keyExists = HasSession(session)]
                  /\ heap' = [heap EXCEPT ![dns[h].clientState] =
                                FillHosts(PrepareClientState(@, dns[h].now,
                                              appConfig.ResponseReboundIPAddrtimeOut), name)]
                  /\ Sessions' = Inserted(session, dns[h].clientState)
    /\ UNCHANGED <<clock, appConfig, questions, lockLeak, crashed, http, sweeper, ipt, hss, codec>>

\* lines 333-379 for an encoded name while the handler's DNSClientState is in the store
SharedPrepare(h) ==
    /\ Running
    /\ dns[h].pc = "loop"
    /\ dns[h].nq < MaxQuestions
    /\ ops < MaxOps
    /\ ops' = ops + 1
    /\ ~addrInIPAddressList(dns[h].peer, appConfig.IgnoreDNSRequestFrom)
    /\ Published(dns[h].clientState)
    /\ \E q \in questions :
        /\ q.Qtype \in {TypeA, TypeAAAA}
        /\ HasPrefix(LowerName[q.Name], Str_s)
        /\ dns' = [dns EXCEPT ![h].pc = "parse", ![h].q = q, ![h].nq = @ + 1]
    /\ heap' = [heap EXCEPT ![dns[h].clientState] =
                  PrepareClientState(@, dns[h].now, appConfig.ResponseReboundIPAddrtimeOut)]
    /\ UNCHANGED <<clock, appConfig, questions, Sessions, lockLeak, crashed, http, sweeper, ipt, hss, codec>>

\* lines 381-395 after SharedPrepare
SharedParse(h) ==
    /\ Running
    /\ dns[h].pc = "parse"
    /\ LET name == Decoded[LowerName[dns[h].q.Name]]
       IN  \/ RejectName(h, dns[h].q)
           \/ /\ name.err = ""
              /\ dns' = [dns EXCEPT ![h].pc = "insert",
                                    ![h].name = name,
                                    ![h].rebindingFn =
                                        SelectStrategy(@, name.DNSRebindingStrategy)]
              /\ heap' = [heap EXCEPT ![dns[h].clientState] = FillHosts(@, name)]
              /\ UNCHANGED Sessions
    /\ UNCHANGED <<clock, appConfig, questions, lockLeak, crashed, http, sweeper, ops, ipt, hss, codec>>

\* lines 397-405 after SharedParse, under the write lock
SharedInsert(h) ==
    /\ Running
    /\ dns[h].pc = "insert"
    /\ lockLeak = "none"
    /\ dns' = [dns EXCEPT ![h].pc = "strategy",
                          ![h].keyExists = HasSession(dns[h].name.Session)]
    /\ Sessions' = Inserted(dns[h].name.Session, dns[h].clientState)
    /\ UNCHANGED <<clock, appConfig, questions, heap, lockLeak, crashed, http, sweeper, ops, ipt, hss, codec>>

\* a strategy, or the timestamp update, finds no session under the key: the nil
\* dereference ends the process
MissingSession(h) ==
    /\ Running
    /\ \/ dns[h].pc = "strategy" /\ lockLeak # "write"
       \/ dns[h].pc = "rrstore" /\ lockLeak = "none"
       \/ /\ dns[h].pc = "respond" /\ lockLeak = "none"
          /\ ~Responses(dns[h].q.Qtype, dns[h].q.Name, dns[h].answers).err
    /\ ~HasSession(dns[h].name.Session)
    /\ crashed' = TRUE
    /\ dns' = [dns EXCEPT ![h].pc = "panic"]
    /\ UNCHANGED <<clock, appConfig, questions, Sessions, heap, lockLeak, http, sweeper, ops, ipt, hss, codec>>

\* line 407 with rebindingFn = DNSRebindFromQueryFirstThenSecond
StrategyFirstThenSecond(h) ==
    /\ Running
    /\ dns[h].pc = "strategy"
    /\ dns[h].rebindingFn = "fs"
    /\ lockLeak # "write"
    /\ HasSession(dns[h].name.Session)
    /\ dns' = [dns EXCEPT ![h].pc = "respond",
                          ![h].answers = DNSRebindFromQueryFirstThenSecond(dns[h].name.Session)]
    /\ UNCHANGED <<clock, appConfig, questions, Sessions, heap, lockLeak, crashed, http, sweeper, ops, ipt, hss, codec>>

\* line 407 with rebindingFn = DNSRebindFromQueryRandom
StrategyRandom(h) ==
    /\ Running
    /\ dns[h].pc = "strategy"
    /\ dns[h].rebindingFn = "rd"
    /\ lockLeak # "write"
    /\ HasSession(dns[h].name.Session)
    /\ \E answers \in DNSRebindFromQueryRandom(dns[h].name.Session) :
          dns' = [dns EXCEPT ![h].pc = "respond", ![h].answers = answers]
    /\ UNCHANGED <<clock, appConfig, questions, Sessions, heap, lockLeak, crashed, http, sweeper, ops, ipt, hss, codec>>

\* line 407 with rebindingFn = DNSRebindFromQueryMultiA
StrategyMultiA(h) ==
    /\ Running
    /\ dns[h].pc = "strategy"
    /\ dns[h].rebindingFn = "ma"
    /\ lockLeak # "write"
    /\ HasSession(dns[h].name.Session)
    /\ dns' = [dns EXCEPT ![h].pc = "respond",
                          ![h].answers = DNSRebindFromQueryMultiA(dns[h].name.Session)]
    /\ UNCHANGED <<clock, appConfig, questions, Sessions, heap, lockLeak, crashed, http, sweeper, ops, ipt, hss, codec>>

\* lines 250-267 of DNSRebindFromQueryRoundRobin: read under the read lock, advance locally
RoundRobinRead(h) ==
    /\ Running
    /\ dns[h].pc = "strategy"
    /\ dns[h].rebindingFn = "rr"
    /\ lockLeak # "write"
    /\ HasSession(dns[h].name.Session)
    /\ LET sv == Session(dns[h].name.Session)
       IN  dns' = [dns EXCEPT ![h].pc = "rrstore",
                              ![h].hosts = <<sv.ResponseIPAddr, sv.ResponseReboundIPAddr>>,
                              ![h].LastResponseReboundIPAddr =
                                  NextRoundRobinIndex(sv.LastResponseReboundIPAddr)]
    /\ UNCHANGED <<clock, appConfig, questions, Sessions, heap, lockLeak, crashed, http, sweeper, ops, ipt, hss, codec>>

\* lines 269-275 of DNSRebindFromQueryRoundRobin: store the index under the write lock
RoundRobinStore(h) ==
    /\ Running
    /\ dns[h].pc = "rrstore"
    /\ lockLeak = "none"
    /\ HasSession(dns[h].name.Session)
    /\ heap' = [heap EXCEPT ![Sessions[dns[h].name.Session]].LastResponseReboundIPAddr =
                                dns[h].LastResponseReboundIPAddr]
    /\ dns' = [dns EXCEPT ![h].pc = "respond",
                          ![h].answers = <<dns[h].hosts[dns[h].LastResponseReboundIPAddr]>>]
    /\ UNCHANGED <<clock, appConfig, questions, Sessions, lockLeak, crashed, http, sweeper, ops, ipt, hss, codec>>

\* lines 444-469 when respond() reports the type mismatch: write m as built so far,
\* return; the question it returned at stays to see
AbortReply(h) ==
    /\ Running
    /\ dns[h].pc = "respond"
    /\ Responses(dns[h].q.Qtype, dns[h].q.Name, dns[h].answers).err
    /\ dns' = [Finish(h, dns, <<dns[h].mAnswer>>) EXCEPT ![h].q = dns[h].q]
    /\ heap' = Collect(heap, Sessions, dns')
    /\ UNCHANGED <<clock, appConfig, questions, Sessions, lockLeak, crashed, http, sweeper, ops, ipt, hss, codec>>

\* StampQueryTimes storing a fresh record in which only the times and hosts are kept
StampQueryTimes_Fresh(cs, now) ==
    [cs EXCEPT !.CurrentQueryTime = now, !.LastQueryTime = now, !.FirewalledOnce = FALSE]

\* lines 472-473
StampQueryTimes(cs, now) ==
    [cs EXCEPT !.CurrentQueryTime = now, !.LastQueryTime = now]

\* lines 444-483 when the records are built: the timestamp update under the write
\* lock, then the records join m.Answer
Stamp(h) ==
    /\ Running
    /\ dns[h].pc = "respond"
    /\ ~Responses(dns[h].q.Qtype, dns[h].q.Name, dns[h].answers).err
    /\ lockLeak = "none"
    /\ HasSession(dns[h].name.Session)
    /\ heap' = [heap EXCEPT ![Sessions[dns[h].name.Session]] = StampQueryTimes(@, dns[h].now)]
    /\ dns' = [dns EXCEPT ![h].pc = "loop",
                          ![h].answers = <<>>,
                          ![h].hosts = <<>>,
                          ![h].q = NoQuestion,
                          ![h].mAnswer = @ \o Responses(dns[h].q.Qtype, dns[h].q.Name,
                                                        dns[h].answers).response]
    /\ UNCHANGED <<clock, appConfig, questions, Sessions, lockLeak, crashed, http, sweeper, ops, ipt, hss, codec>>

(***************************************************************************)
(* The expiry sweep, lines 91-100.                                         *)
(***************************************************************************)
\* Expired without the test for the zero time
Expired_ZeroToo(sv, duration, t) == Sub(t, sv.LastQueryTime) > duration

\* lines 94-95: the test of one entry at time t
Expired(sv, duration, t) ==
    /\ sv.LastQueryTime # ZeroTime
    /\ Sub(t, sv.LastQueryTime) > duration

ExpireOldEntries(duration) ==
    /\ Running
    /\ lockLeak = "none"
    /\ Now(clock')
    /\ LET deleted == {sk \in DOMAIN Sessions : Expired(Session(sk), duration, clock')}
       IN  /\ Sessions' = [sk \in DOMAIN Sessions \ deleted |-> Sessions[sk]]
           /\ heap' = Collect(heap, Sessions', dns)
           /\ sweeper' = [pc |-> "done", duration |-> duration, at |-> clock',
                           deleted |-> deleted]
    /\ UNCHANGED <<appConfig, questions, lockLeak, crashed, dns, http, ipt, hss, codec>>

(***************************************************************************)
(* The HTTP catch-all route "/", lines 848-890.  A panic of an HTTP        *)
(* handler is recovered by net/http, but the lock it held stays locked.    *)
(***************************************************************************)
FirewallDelay == 3

\* lines 876-877
RipeForFirewall(name, elapsed) ==
    /\ name.DNSRebindingStrategy = <<"m","a">>
    /\ elapsed > FirewallDelay

\* lines 861-871: parse the Host header and look the session up under the read lock
HTTPRequest ==
    /\ Running
    /\ http.pc = "idle"
    /\ ops < MaxOps
    /\ ops' = ops + 1
    /\ \E host \in HTTPHosts :
        LET name == Decoded[host]
        IN  \/ /\ name.err # ""
               /\ http' = [IdleHTTP EXCEPT !.pc = "done", !.served = "static"]
            \/ /\ name.err = ""
               /\ lockLeak # "write"
               /\ http' = IF HasSession(name.Session)
                          THEN [IdleHTTP EXCEPT !.pc = "elapsed", !.name = name]
                          ELSE [IdleHTTP EXCEPT !.pc = "done", !.name = name,
                                                !.served = "static"]
    /\ UNCHANGED <<clock, appConfig, questions, Sessions, heap, lockLeak, crashed, dns, sweeper, ipt, hss, codec>>

\* lines 872-877 and 889: read FirstQueryTime under the read lock, decide
HTTPElapsed ==
    /\ Running
    /\ http.pc = "elapsed"
    /\ lockLeak # "write"
    /\ Now(clock')
    /\ IF HasSession(http.name.Session)
       THEN LET elapsed == Sub(clock', Session(http.name.Session).FirstQueryTime)
            IN  /\ http' = IF RipeForFirewall(http.name, elapsed)
                           THEN [http EXCEPT !.pc = "latch", !.elapsed = elapsed]
                           ELSE [http EXCEPT !.pc = "done", !.elapsed = elapsed,
                                             !.served = "static"]
                /\ lockLeak' = lockLeak
       ELSE /\ http' = [http EXCEPT !.pc = "done", !.served = "panic"]
            /\ lockLeak' = "read"
    /\ UNCHANGED <<appConfig, questions, Sessions, heap, crashed, dns, sweeper, ops, ipt, hss, codec>>

\* lines 878-883: set FirewalledOnce under the write lock, hand over to IPTablesHandler
HTTPLatch ==
    /\ Running
    /\ http.pc = "latch"
    /\ lockLeak = "none"
    /\ IF HasSession(http.name.Session)
       THEN /\ heap' = [heap EXCEPT ![Sessions[http.name.Session]].FirewalledOnce = TRUE]
            /\ http' = [http EXCEPT !.pc = "done", !.served = "iptables"]
            /\ lockLeak' = lockLeak
       ELSE /\ heap' = heap
            /\ http' = [http EXCEPT !.pc = "done", !.served = "panic"]
            /\ lockLeak' = "write"
    /\ UNCHANGED <<clock, appConfig, questions, Sessions, crashed, dns, sweeper, ops, ipt, hss, codec>>

(***************************************************************************)
(* IPTablesHandler.ServeHTTP, lines 753-807.  The packet filter is a set   *)
(* of flows: add_rule and remove_rule are idempotent.  A rule is in the    *)
(* filter from the moment the iptables command of AddRule completes, which *)
(* is a step of its own: the handler waits for it, the removal goroutine   *)
(* does not.                                                               *)
(***************************************************************************)
\* line 793: time.Sleep(time.Second * time.Duration(5))
RuleLifetime == 5

\* the 4-tuples of the hijacked connections
Flows == {"198.51.100.7:40000>192.0.2.80:8080", "198.51.100.7:40001>192.0.2.80:8080"}

Token == "thisismytesttoken"

\* ipTablesRule.AddRule(): the flow is dropped from now on
AddRuleTo(rules, flow) == rules \cup {flow}

\* ipTablesRule.RemoveRule(): the flow is let through again; nothing to do if no rule
RemoveRuleFrom(rules, flow) == rules \ {flow}

\* lines 756-795: the connection is hijacked, the rule built and the removal
\* goroutine started; a connection that cannot be hijacked, or whose addresses do
\* not parse, ends the handler
Hijack(r) ==
    /\ ipt.req[r].pc = "idle"
    /\ \A g \in 1..(r - 1) : ipt.req[g].pc # "idle"
    /\ \E flow \in Flows, ok \in BOOLEAN :
          ipt' = [ipt EXCEPT !.req[r] =
                     IF ok
                     THEN [IdleHijack EXCEPT !.pc = "add", !.flow = flow,
                                             !.timer = "sleeping",
                                             !.wakeAt = clock + RuleLifetime]
                     ELSE [IdleHijack EXCEPT !.pc = "done", !.flow = flow]]
    /\ UNCHANGED <<clock, appConfig, questions, Sessions, heap, lockLeak, crashed, dns, http,
                   sweeper, ops, hss, codec>>

\* line 797: AddRule returns, the rule is installed
AddRule(r) ==
    /\ ipt.req[r].pc = "add"
    /\ ipt' = [ipt EXCEPT !.rules = AddRuleTo(@, ipt.req[r].flow),
                          !.req[r].added = TRUE,
                          !.req[r].pc = "token"]
    /\ UNCHANGED <<clock, appConfig, questions, Sessions, heap, lockLeak, crashed, dns, http,
                   sweeper, ops, hss, codec>>

\* lines 804-805 and the deferred conn.Close() of line 768
WriteToken(r) ==
    /\ ipt.req[r].pc = "token"
    /\ ipt' = [ipt EXCEPT !.req[r].conn = Token, !.req[r].pc = "done"]
    /\ UNCHANGED <<clock, appConfig, questions, Sessions, heap, lockLeak, crashed, dns, http,
                   sweeper, ops, hss, codec>>

\* lines 792-795: the goroutine wakes when its sleep is over and removes the rule
RemoveRule(r) ==
    /\ ipt.req[r].timer = "sleeping"
    /\ clock >= ipt.req[r].wakeAt
    /\ ipt' = [ipt EXCEPT !.rules = RemoveRuleFrom(@, ipt.req[r].flow),
                          !.req[r].removed = TRUE,
                          !.req[r].timer = "done"]
    /\ UNCHANGED <<clock, appConfig, questions, Sessions, heap, lockLeak, crashed, dns, http,
                   sweeper, ops, hss, codec>>

\* a second passes
Tick ==
    /\ clock < MaxHijackTime
    /\ clock' = clock + 1
    /\ UNCHANGED <<appConfig, questions, Sessions, heap, lockLeak, crashed, dns, http,
                   sweeper, ops, ipt, hss, codec>>

HijackNext ==
    \/ \E r \in HijackRequests : Hijack(r) \/ AddRule(r) \/ WriteToken(r) \/ RemoveRule(r)
    \/ Tick

SpecHijack == Init /\ [][HijackNext]_vars

(***************************************************************************)
(* PUT /servers, lines 696-744, with StartHTTPServer, lines 927-969, and   *)
(* StopHTTPServer, lines 972-975.  An http.Server made by a PUT is         *)
(* [Addr, listener, shutdown, serving]: listener is "open" from net.Listen *)
(* until the server closes it, shutdown is set by Close(), serving holds   *)
(* while the goroutine of line 961 is inside s.Serve(l).  Each critical    *)
(* section of hss's lock is one step.                                      *)
(***************************************************************************)
\* the ports on which some server listens
BoundPorts(store) ==
    store.StaticServers \cup
    {store.servers[i].Addr : i \in {j \in DOMAIN store.servers :
                                       store.servers[j].listener = "open"}}

\* s.Close(), line 974: the server is shut down; the listener given to Serve is closed
Close(srv) ==
    [srv EXCEPT !.shutdown = TRUE,
                !.listener = IF srv.serving THEN "closed" ELSE @,
                !.serving = FALSE]

\* lines 696-721: the request is refused, or a port is read from its body
PutRequest(r) ==
    /\ hss.put[r].pc = "idle"
    /\ \A g \in 1..(r - 1) : hss.put[g].pc # "idle"
    /\ hss.puts < MaxPuts
    /\ \E port \in Ports, wellFormed \in BOOLEAN :
          hss' = [hss EXCEPT !.puts = @ + 1,
                             !.put[r] =
                                 IF hss.AllowDynamicHTTPServers /\ wellFormed
                                 THEN [IdlePut EXCEPT !.pc = "stop", !.port = port]
                                 ELSE [IdlePut EXCEPT !.status = 400]]
    /\ UNCHANGED <<clock, appConfig, questions, Sessions, heap, lockLeak, crashed, dns, http,
                   sweeper, ops, ipt, codec>>

\* lines 723-728, under the lock: stop the server of the dynamic slot and clear the slot
PutStop(r) ==
    /\ hss.put[r].pc = "stop"
    /\ hss' = [hss EXCEPT !.servers =
                              IF hss.DynamicServers # 0
                              THEN [@ EXCEPT ![hss.DynamicServers] = Close(@)]
                              ELSE @,
                          !.DynamicServers = 0,
                          !.put[r].pc = "listen"]
    /\ UNCHANGED <<clock, appConfig, questions, Sessions, heap, lockLeak, crashed, dns, http,
                   sweeper, ops, ipt, codec>>

\* lines 730 and 932-941: NewHTTPServer and net.Listen; a port in use is an error
PutListen(r) ==
    /\ hss.put[r].pc = "listen"
    /\ hss' = IF hss.put[r].port \in BoundPorts(hss)
              THEN [hss EXCEPT !.put[r] = [IdlePut EXCEPT !.status = 400]]
              ELSE [hss EXCEPT !.servers =
                                   Append(@, [Addr |-> hss.put[r].port, listener |-> "open",
                                              shutdown |-> FALSE, spawned |-> FALSE,
                                              serving |-> FALSE]),
                               !.put[r].server = Len(hss.servers) + 1,
                               !.put[r].pc = "register"]
    /\ UNCHANGED <<clock, appConfig, questions, Sessions, heap, lockLeak, crashed, dns, http,
                   sweeper, ops, ipt, codec>>

\* lines 943-966 and 733-744: under the lock the server takes the dynamic slot unless a
\* static server has its address; the serving goroutine is started; the request is
\* answered
PutRegister(r) ==
    /\ hss.put[r].pc = "register"
    /\ LET s == hss.put[r].server
           found == hss.servers[s].Addr \in hss.StaticServers
       IN  hss' = [hss EXCEPT !.DynamicServers = IF found THEN @ ELSE s,
                              !.servers[s].spawned = TRUE,
                              !.put[r] = [IdlePut EXCEPT !.status = 200]]
    /\ UNCHANGED <<clock, appConfig, questions, Sessions, heap, lockLeak, crashed, dns, http,
                   sweeper, ops, ipt, codec>>

\* line 963: s.Serve(l) begins; on a server already shut down it closes l and returns
ServeListener(s) ==
    /\ s \in DOMAIN hss.servers
    /\ hss.servers[s].spawned
    /\ ~hss.servers[s].serving
    /\ hss.servers[s].listener = "open"
    /\ hss' = [hss EXCEPT !.servers[s] =
                  IF hss.servers[s].shutdown
                  THEN [@ EXCEPT !.listener = "closed"]
                  ELSE [@ EXCEPT !.serving = TRUE]]
    /\ UNCHANGED <<clock, appConfig, questions, Sessions, heap, lockLeak, crashed, dns, http,
                   sweeper, ops, ipt, codec>>

ServersNext ==
    \/ \E r \in PutHandlers : PutRequest(r) \/ PutStop(r) \/ PutListen(r) \/ PutRegister(r)
    \/ \E s \in 1..MaxPuts : ServeListener(s)

\* the servers with dynamic HTTP servers allowed or not
InitServers ==
    /\ clock = 1
    /\ appConfig \in [ResponseIPAddr : ResponseIPs,
                      RebindingFnName : DefaultStrategies,
                      IgnoreDNSRequestFrom : IgnoreLists,
                      ResponseReboundIPAddrtimeOut : Timeouts]
    /\ questions = Questions
    /\ Sessions = [k \in {} |-> 0]
    /\ heap = [p \in {} |-> ZeroClientState]
    /\ lockLeak = "none"
    /\ crashed = FALSE
    /\ dns = [h \in Handlers |-> IdleHandler]
    /\ http = IdleHTTP
    /\ sweeper = IdleSweeper
    /\ ops = 0
    /\ ipt = NoHijack
    /\ \E allow \in BOOLEAN : hss = [EmptyStore EXCEPT !.AllowDynamicHTTPServers = allow]
    /\ codec = NoCodec

SpecServers == InitServers /\ [][ServersNext]_vars

\* the steps of handler goroutine h after it has taken its message
Handle(h) ==
    \/ EndOfMessage(h)
    \/ SkipQuestion(h)
    \/ IgnoreQuestion(h)
    \/ MinimizedQuestion(h)
    \/ EncodedQuestion(h)
    \/ SharedPrepare(h)
    \/ SharedParse(h)
    \/ SharedInsert(h)
    \/ StrategyFirstThenSecond(h)
    \/ StrategyRandom(h)
    \/ StrategyMultiA(h)
    \/ RoundRobinRead(h)
    \/ RoundRobinStore(h)
    \/ AbortReply(h)
    \/ Stamp(h)

\* the expiry task, a call of it counted as one piece of work of the run
Sweep ==
    /\ ops < MaxOps
    /\ ops' = ops + 1
    /\ \E duration \in SweepAges : ExpireOldEntries(duration)

\* the steps of an HTTP request after the first
Serve ==
    \/ HTTPElapsed
    \/ HTTPLatch

Next ==
    \/ \E h \in Handlers : Receive(h) \/ Handle(h) \/ MissingSession(h)
    \/ Sweep
    \/ HTTPRequest
    \/ Serve
    \/ Reap

Spec == Init /\ [][Next]_vars

(***************************************************************************)
(* The server with its work done one piece after another: a DNS message,   *)
(* an HTTP request or a sweep begins only when nothing else is under way.  *)
(***************************************************************************)
Quiet ==
    /\ \A g \in Handlers : dns[g].pc = "idle"
    /\ http.pc = "idle"

ReceiveAlone(h) == Quiet /\ Receive(h)

SweepAlone == Quiet /\ Sweep

HTTPRequestAlone == Quiet /\ HTTPRequest

SequentialNext ==
    \/ \E h \in Handlers : ReceiveAlone(h) \/ Handle(h)
    \/ SweepAlone
    \/ HTTPRequestAlone
    \/ Serve
    \/ Reap

SpecSequential == Init /\ [][SequentialNext]_vars

(***************************************************************************)
(* The DNS responder alone, its messages handled one after another, with   *)
(* the wider choice of questions and of response_ip.                       *)
(***************************************************************************)
InitWide ==
    /\ clock = 1
    /\ appConfig \in [ResponseIPAddr : WideResponseIPs,
                      RebindingFnName : DefaultStrategies,
                      IgnoreDNSRequestFrom : IgnoreLists,
                      ResponseReboundIPAddrtimeOut : Timeouts]
    /\ questions = WideQuestions
    /\ Sessions = [k \in {} |-> 0]
    /\ heap = [p \in {} |-> ZeroClientState]
    /\ lockLeak = "none"
    /\ crashed = FALSE
    /\ dns = [h \in Handlers |-> IdleHandler]
    /\ http = IdleHTTP
    /\ sweeper = IdleSweeper
    /\ ops = 0
    /\ ipt = NoHijack
    /\ hss = EmptyStore
    /\ codec = NoCodec

WideNext ==
    \/ \E h \in Handlers : ReceiveAlone(h) \/ Handle(h)
    \/ Reap

SpecWide == InitWide /\ [][WideNext]_vars

(***************************************************************************)
(* The DNS responder alone, its handlers running together, with a name     *)
(* that the codec rejects among the questions.                             *)
(***************************************************************************)
InitReject ==
    /\ clock = 1
    /\ appConfig \in [ResponseIPAddr : ResponseIPs,
                      RebindingFnName : DefaultStrategies,
                      IgnoreDNSRequestFrom : IgnoreLists,
                      ResponseReboundIPAddrtimeOut : Timeouts]
    /\ questions = RejectQuestions
    /\ Sessions = [k \in {} |-> 0]
    /\ heap = [p \in {} |-> ZeroClientState]
    /\ lockLeak = "none"
    /\ crashed = FALSE
    /\ dns = [h \in Handlers |-> IdleHandler]
    /\ http = IdleHTTP
    /\ sweeper = IdleSweeper
    /\ ops = 0
    /\ ipt = NoHijack
    /\ hss = EmptyStore
    /\ codec = NoCodec

RejectNext ==
    \/ \E h \in Handlers : Receive(h) \/ Handle(h)
    \/ Reap

SpecReject == InitReject /\ [][RejectNext]_vars

(***************************************************************************)
(* The server with an expiry task that keeps running.  The DNS messages    *)
(* come one after another and before the last instant of the run; sweeps   *)
(* go on for ever, between and during the messages.  The goroutines are    *)
(* scheduled fairly.  The expiry task is periodic and time goes on: sweeps *)
(* are made again and again at the last instant (a sweep cannot begin in   *)
(* the state that shows the result of the one before, hence SF).           *)
(***************************************************************************)
ReceiveEarly(h) == ReceiveAlone(h) /\ clock' < MaxTime

\* a call of the expiry task, not counted
SweepOn(duration) == ExpireOldEntries(duration) /\ UNCHANGED ops

LateSweep(duration) == SweepOn(duration) /\ clock' = MaxTime

LiveNext ==
    \/ \E h \in Handlers : ReceiveEarly(h) \/ Handle(h) \/ MissingSession(h)
    \/ \E duration \in SweepAges : SweepOn(duration)
    \/ Reap

Fairness ==
    /\ \A h \in Handlers : WF_vars(Handle(h))
    /\ \A duration \in SweepAges : SF_vars(LateSweep(duration))
    /\ WF_vars(Reap)

SpecLive == Init /\ [][LiveNext]_vars /\ Fairness

(***************************************************************************)
(* The route "/" together with IPTablesHandler: the request that set       *)
(* FirewalledOnce is passed to ipth.ServeHTTP, line 882, and the handler   *)
(* of lines 753-807 runs on its connection.  The work is done one piece    *)
(* after another as in SpecSequential; the removal goroutines sleep while  *)
(* the seconds pass.                                                       *)
(***************************************************************************)
\* the request is served by IPTablesHandler and not yet passed to it
HandedOver ==
    /\ http.pc = "done"
    /\ http.served = "iptables"

\* line 882 and lines 756-795: ipth.ServeHTTP(w, req) hijacks the connection, builds
\* the rule and starts the removal goroutine, or returns at one of its five checks
HandOver(r) ==
    /\ HandedOver
    /\ ipt.req[r].pc = "idle"
    /\ \A g \in 1..(r - 1) : ipt.req[g].pc # "idle"
    /\ \E flow \in Flows, ok \in BOOLEAN :
          ipt' = [ipt EXCEPT !.req[r] =
                     IF ok
                     THEN [IdleHijack EXCEPT !.pc = "add", !.flow = flow,
                                             !.timer = "sleeping",
                                             !.wakeAt = clock + RuleLifetime,
                                             !.session = http.name.Session]
                     ELSE [IdleHijack EXCEPT !.pc = "done", !.flow = flow,
                                             !.session = http.name.Session]]
    /\ http' = [http EXCEPT !.served = "hijack"]
    /\ UNCHANGED <<clock, appConfig, questions, Sessions, heap, lockLeak, crashed, dns,
                   sweeper, ops, hss, codec>>

\* a goroutine that has returned is taken away, the route "/" once it has passed
\* its request on
DispatchReap == ~HandedOver /\ Reap

\* a second passes while a removal goroutine sleeps
TickAsleep ==
    /\ \E r \in HijackRequests : ipt.req[r].timer = "sleeping"
    /\ clock < MaxDispatchTime
    /\ clock' = clock + 1
    /\ UNCHANGED <<appConfig, questions, Sessions, heap, lockLeak, crashed, dns, http,
                   sweeper, ops, ipt, hss, codec>>

DispatchNext ==
    \/ \E h \in Handlers : ReceiveAlone(h) \/ Handle(h)
    \/ SweepAlone
    \/ HTTPRequestAlone
    \/ Serve
    \/ \E r \in HijackRequests : HandOver(r) \/ AddRule(r) \/ WriteToken(r) \/ RemoveRule(r)
    \/ TickAsleep
    \/ DispatchReap

SpecDispatch == Init /\ [][DispatchNext]_vars

(***************************************************************************)
(* The name codec on its own: a record that obeys the format of the names  *)
(* is encoded as the comment of NewDNSQuery describes, each "-" of a       *)
(* second host given as a name doubled, and the name is parsed.            *)
(***************************************************************************)
\* each "-" of a name escaped with another "-"
EscapeDashes(host) == Replace(host, Str_dash, Str_dashdash)

\* the second host in a name: the hexadecimal string of an address, or the escaped name
EncodeHost2(host2) ==
    IF host2.kind = "ip" THEN HexEncode(host2.ip) ELSE EscapeDashes(host2.name)

EncodeRecord(rec) ==
    EncodeName(HexEncode(rec.ip1), EncodeHost2(rec.host2), rec.session, rec.strategy,
               rec.suffix)

Bytes_10_0_0_1 == <<10, 0, 0, 1>>
Bytes_10_0_0_2 == <<10, 0, 0, 2>>
Bytes_fd00_1 == <<253, 0, 0, 0, 0, 0, 0, 0, 0, 0, 0, 0, 0, 0, 0, 1>>

\* names for the second host: plain, with a dash, with two dashes in a row, with an
\* underscore, and single labels that are also strings of hexadecimal digits
Host_dash == <<"a", "-", "b", ".", "t">>
Host_dashdash == <<"a", "-", "-", "b", ".", "t">>
Host_underscore == <<"a", "_", "b", ".", "t">>
Host_cafe == <<"c", "a", "f", "e">>
Host_deadbeef == <<"d", "e", "a", "d", "b", "e", "e", "f">>

CodecNames ==
    {Host_name, Host_dash, Host_dashdash, Host_underscore, Host_cafe, Host_deadbeef,
     Str_localhost}

CodecHosts2 ==
    {[kind |-> "ip", ip |-> b, name |-> <<>>] : b \in {Bytes_10_0_0_2, Bytes_fd00_1}}
        \cup {[kind |-> "name", ip |-> <<>>, name |-> n] : n \in CodecNames}

CodecRecords ==
    {[ip1 |-> a, host2 |-> b, session |-> x, strategy |-> t, suffix |-> Suffix] :
        a \in {Bytes_10_0_0_1, Bytes_fd00_1}, b \in CodecHosts2, x \in SessionNames,
        t \in {Tag_fs, Tag_ma, Tag_zz}}

InitCodec ==
    /\ clock = 1
    /\ appConfig \in [ResponseIPAddr : ResponseIPs,
                      RebindingFnName : DefaultStrategies,
                      IgnoreDNSRequestFrom : IgnoreLists,
                      ResponseReboundIPAddrtimeOut : Timeouts]
    /\ questions = Questions
    /\ Sessions = [k \in {} |-> 0]
    /\ heap = [p \in {} |-> ZeroClientState]
    /\ lockLeak = "none"
    /\ crashed = FALSE
    /\ dns = [h \in Handlers |-> IdleHandler]
    /\ http = IdleHTTP
    /\ sweeper = IdleSweeper
    /\ ops = 0
    /\ ipt = NoHijack
    /\ hss = EmptyStore
    /\ \E rec \in CodecRecords : codec = [NoCodec EXCEPT !.pc = "drawn", !.rec = rec]

\* the name of the record is built
Encode ==
    /\ codec.pc = "drawn"
    /\ codec' = [codec EXCEPT !.pc = "encoded", !.qname = EncodeRecord(codec.rec)]
    /\ UNCHANGED <<clock, appConfig, questions, Sessions, heap, lockLeak, crashed, dns, http,
                   sweeper, ops, ipt, hss>>

\* NewDNSQuery(qname)
Decode ==
    /\ codec.pc = "encoded"
    /\ codec' = [codec EXCEPT !.pc = "decoded", !.name = NewDNSQuery(codec.qname)]
    /\ UNCHANGED <<clock, appConfig, questions, Sessions, heap, lockLeak, crashed, dns, http,
                   sweeper, ops, ipt, hss>>

CodecNext == Encode \/ Decode

SpecCodec == InitCodec /\ [][CodecNext]_vars

(***************************************************************************)
(* The properties.  attacker_ip and rebound_target of a question are the   *)
(* two hosts its name encodes.                                             *)
(***************************************************************************)
AttackerIP(h) == dns[h].name.ResponseIPAddr

ReboundTarget(h) == dns[h].name.ResponseReboundIPAddr

\* handler h takes the step in which strategy fn returns its answer
Answers(h, fn) ==
    /\ dns[h].pc \in {"strategy", "rrstore"}
    /\ dns[h].rebindingFn = fn
    /\ dns'[h].pc = "respond"

\* the question of h is the first of its session: h found no key and inserted it
FirstQuery(h) == ~dns[h].keyExists

\* the question of h found its session stamped by a previous query
LaterQuery(h) ==
    /\ dns[h].keyExists
    /\ HasSession(dns[h].name.Session)
    /\ Session(dns[h].name.Session).LastQueryTime # ZeroTime

\* the time between the session's previous query and the arrival of h's
SincePrevious(h) == dns[h].now - Session(dns[h].name.Session).LastQueryTime

\* C1: with the messages, requests and sweeps handled one after another, the fs
\* strategy answers the first query of a new session with the single record
\* attacker_ip, and a later query arriving less than the session's timeout after
\* the previous one with the single record rebound_target.
C1_FirstThenSecond ==
    [][\A h \in Handlers :
          Answers(h, "fs") =>
              /\ FirstQuery(h) => dns'[h].answers = <<AttackerIP(h)>>
              /\ (LaterQuery(h) /\ SincePrevious(h) <
                      Session(dns[h].name.Session).ResponseReboundIPAddrtimeOut)
                    => dns'[h].answers = <<ReboundTarget(h)>>]_vars

\* C2: with the messages, requests and sweeps handled one after another, the fs
\* strategy answers a query that arrives the session's timeout or more after the
\* previous query of the session with the single record attacker_ip.
C2_FirstAgainAfterTimeout ==
    [][\A h \in Handlers :
          (Answers(h, "fs") /\ LaterQuery(h) /\ SincePrevious(h) >=
                      Session(dns[h].name.Session).ResponseReboundIPAddrtimeOut)
              => dns'[h].answers = <<AttackerIP(h)>>]_vars

\* the index after i in the cycle 0 -> 1 -> 2 -> 1 -> 2 ...
CycleNext(i) == IF i = 1 THEN 2 ELSE 1

\* C3: with the messages, requests and sweeps handled one after another, the rr
\* strategy answers the first query of a session with attacker_ip and stores
\* index 1, and answers every later query with the host after the stored index in
\* the cycle 0 -> 1 -> 2 -> 1 -> 2, storing the new index.
C3_RoundRobinAlternates ==
    [][\A h \in Handlers :
          Answers(h, "rr") =>
              LET s == dns[h].name.Session
                  expected == IF FirstQuery(h) THEN 1
                              ELSE CycleNext(Session(s).LastResponseReboundIPAddr)
              IN  /\ HasSession(s)'
                  /\ Session(s)'.LastResponseReboundIPAddr = expected
                  /\ dns'[h].answers =
                        <<IF expected = 1 THEN AttackerIP(h) ELSE ReboundTarget(h)>>]_vars

\* C4: the ma strategy answers exactly [attacker_ip, rebound_target], in that
\* order, while the session's FirewalledOnce is false, and exactly
\* [rebound_target] once it is true.
C4_MultiAAnswers ==
    [][\A h \in Handlers :
          Answers(h, "ma") =>
              dns'[h].answers =
                  IF Session(dns[h].name.Session).FirewalledOnce
                  THEN <<ReboundTarget(h)>>
                  ELSE <<AttackerIP(h), ReboundTarget(h)>>]_vars

\* an ma query has just been answered with the target alone, the latch being set
C4_AnsweredAfterFirewall ==
    \E h \in Handlers :
        /\ dns[h].pc = "respond"
        /\ dns[h].rebindingFn = "ma"
        /\ HasSession(dns[h].name.Session)
        /\ Session(dns[h].name.Session).FirewalledOnce
        /\ dns[h].answers = <<ReboundTarget(h)>>

\* the latch of session id s is set
Latched(s) == HasSession(s) /\ Session(s).FirewalledOnce

FourConditions ==
    /\ http.name.err = ""
    /\ HasSession(http.name.Session)
    /\ http.name.DNSRebindingStrategy = <<"m", "a">>
    /\ http.elapsed > FirewallDelay

\* C6: a request to "/" ends in one of two ways: it has set FirewalledOnce and
\* delegated to the packet-filter hijack, the four conditions holding, or it has
\* been served as a static file and has left the session store unchanged.
C6_CatchAllRoute ==
    [][(http.pc # "done" /\ http'.pc = "done") =>
          \/ /\ http'.served = "iptables"
             /\ FourConditions'
             /\ Latched(http.name.Session)'
          \/ /\ http'.served = "static"
             /\ UNCHANGED <<Sessions, heap>>]_vars

\* C7: the LastQueryTime stored for a session id never decreases while the
\* session is in the store, whatever the interleaving of the handlers.
C7_LastQueryTimeMonotone ==
    [][\A s \in SessionNames :
          (HasSession(s) /\ HasSession(s)')
              => Session(s)'.LastQueryTime >= Session(s).LastQueryTime]_vars

\* C8: two rr queries of one session that are under way together never both
\* return the same index and the same host.
C8_RoundRobinLinearizable ==
    \A g, h \in Handlers :
        (/\ g # h
         /\ dns[g].pc = "respond" /\ dns[g].rebindingFn = "rr"
         /\ dns[h].pc = "respond" /\ dns[h].rebindingFn = "rr"
         /\ dns[g].name.Session = dns[h].name.Session)
            => \/ dns[g].LastResponseReboundIPAddr # dns[h].LastResponseReboundIPAddr
               \/ dns[g].answers # dns[h].answers

C10_SweepPostcondition ==
    [][(sweeper.pc # "done" /\ sweeper'.pc = "done") =>
          /\ DOMAIN Sessions' \subseteq DOMAIN Sessions
          /\ \A s \in DOMAIN Sessions :
                IF /\ Session(s).LastQueryTime # ZeroTime
                   /\ clock' - Session(s).LastQueryTime > sweeper'.duration
                THEN ~HasSession(s)'
                ELSE HasSession(s)' /\ Session(s)' = Session(s)]_vars

\* a sweep has just removed a session and kept one that was never stamped
C10_SweptAndKept ==
    /\ sweeper.pc = "done"
    /\ sweeper.deleted # {}
    /\ \E s \in DOMAIN Sessions : Session(s).LastQueryTime = ZeroTime

\* no DNS query is under way and none will come: the budget of the run is used up
NoFurtherQuery ==
    /\ ops = MaxOps
    /\ \A h \in Handlers : dns[h].pc = "idle"

\* C11: with the sweep and the handlers scheduled fairly, every session that a
\* DNS query has put in the store and that receives no further query is
\* eventually removed from the store.
C11_EventuallyExpired ==
    \A s \in SessionNames : (HasSession(s) /\ NoFurtherQuery) ~> ~HasSession(s)

\* the codec rejects the name of question q
Rejected(q) == q # NoQuestion /\ Decoded[LowerName[q.Name]].err # ""

\* handler h takes a step of the handling of a question whose name the codec rejects
HandlesRejected(h) ==
    /\ \/ dns[h].pc = "loop" /\ dns'[h].pc \in {"parse", "done"}
       \/ dns[h].pc = "parse" /\ dns'[h].pc = "done"
    /\ Rejected(dns'[h].q)

\* C12: the handling of a question whose name the codec rejects creates no
\* session and changes no session of the store; when the lower-cased name begins
\* with "s-" it ends with the handler returning without a reply written.
C12_RejectedNameDropped ==
    [][\A h \in Handlers :
          HandlesRejected(h) =>
              /\ DOMAIN Sessions' = DOMAIN Sessions
              /\ \A s \in DOMAIN Sessions : Session(s)' = Session(s)
              /\ (dns'[h].pc = "done" /\ HasPrefix(ToLower(dns'[h].q.Name), Str_s))
                    => dns'[h].wrote = <<>>]_vars

\* handler h ends its message on a question of type A or AAAA whose lower-cased
\* name does not begin with "s-"
FallsBack(h) ==
    /\ dns[h].pc = "loop"
    /\ dns'[h].pc = "done"
    /\ dns'[h].q # NoQuestion
    /\ dns'[h].q.Qtype \in {TypeA, TypeAAAA}
    /\ ~HasPrefix(ToLower(dns'[h].q.Name), Str_s)

\* C13: an A or AAAA question whose lower-cased name does not begin with "s-",
\* from a peer that is not ignored, creates no session and changes none; when
\* response_ip parses as an IP address the reply is written with exactly one
\* record added for the question: its name, TTL 0, type A for an IPv4 and AAAA
\* for an IPv6 response_ip, and response_ip as data; when response_ip does not
\* parse the handler returns without writing a reply.
C13_MinimizedAnswer ==
    [][\A h \in Handlers :
          FallsBack(h) =>
              /\ Sessions' = Sessions
              /\ \A s \in DOMAIN Sessions : Session(s)' = Session(s)
              /\ dns'[h].wrote =
                    LET ip == appConfig.ResponseIPAddr
                    IN  IF ip.kind = "ip4"
                        THEN <<dns[h].mAnswer \o
                                 <<[Name |-> dns'[h].q.Name, TTL |-> 0, Type |-> "A",
                                    Data |-> ip]>> >>
                        ELSE IF ip.kind = "ip6"
                        THEN <<dns[h].mAnswer \o
                                 <<[Name |-> dns'[h].q.Name, TTL |-> 0, Type |-> "AAAA",
                                    Data |-> ip]>> >>
                        ELSE <<>>]_vars

\* a fallback answer of type AAAA has been written to an A question
C13_AnsweredAAAA ==
    \E h \in Handlers :
        /\ dns[h].pc = "done"
        /\ dns[h].q = [Name |-> MinimizedName, Qtype |-> TypeA]
        /\ dns[h].wrote # <<>>
        /\ dns[h].wrote[1][Len(dns[h].wrote[1])].Type = "AAAA"

\* the peer of the message that handler h serves is in ignore_dns_request_from
IgnoredPeer(h) ==
    /\ dns[h].pc \notin {"idle", "done"}
    /\ addrInIPAddressList(dns[h].peer, appConfig.IgnoreDNSRequestFrom)

\* C14: the handler of a query message from a peer in ignore_dns_request_from
\* creates no session and changes none, whatever the types of the questions, and
\* when it returns, having gone through at least one question, it has written no
\* reply.
C14_IgnoredPeerDropped ==
    [][\A h \in Handlers :
          (IgnoredPeer(h) /\ dns'[h] # dns[h]) =>
              /\ Sessions' = Sessions
              /\ \A s \in DOMAIN Sessions : Session(s)' = Session(s)
              /\ (dns[h].nq > 0 /\ dns'[h].pc = "done") => dns'[h].wrote = <<>>]_vars

\* handler h takes the step that adds the records of its question to the reply
AddsRecords(h) == dns[h].pc = "respond" /\ dns'[h].pc = "loop"

\* the records that the step adds to the reply of handler h
AddedRecords(h) == SubSeq(dns'[h].mAnswer, Len(dns[h].mAnswer) + 1, Len(dns'[h].mAnswer))

\* C15: a response built from two answers adds two records to the reply, the
\* first with TTL 10 and the second with TTL 0, whatever the kind of the
\* rebound target (IPv4 literal, IPv6 literal, DNS name, localhost).
C15_LeadTenRebindZero ==
    [][\A h \in Handlers :
          (AddsRecords(h) /\ Len(dns[h].answers) = 2) =>
              /\ Len(AddedRecords(h)) = 2
              /\ AddedRecords(h)[1].TTL = 10
              /\ AddedRecords(h)[2].TTL = 0]_vars

\* the strategy that the tag of h's question names, the configured one for a tag
\* that names none
StrategyOfTag(h) ==
    IF TagName(dns[h].name.DNSRebindingStrategy) \in KnownStrategies
    THEN TagName(dns[h].name.DNSRebindingStrategy)
    ELSE appConfig.RebindingFnName

\* C16: the strategy that is about to answer a question is the one named by the
\* tag of that question when the tag is rr, fs, rd or ma, and the configured
\* default strategy otherwise, whatever the other questions of the message.
C16_StrategyOfOwnTag ==
    \A h \in Handlers : dns[h].pc = "strategy" => dns[h].rebindingFn = StrategyOfTag(h)

\* C17: in the hijack handler the token is written to the connection only after
\* add_rule has installed the rule of the flow, and the removal goroutine calls
\* remove_rule only after add_rule has installed it.
C17_AddTokenRemove ==
    [][\A r \in HijackRequests :
          /\ (ipt.req[r].conn # Token /\ ipt'.req[r].conn = Token) => ipt.req[r].added
          /\ (~ipt.req[r].removed /\ ipt'.req[r].removed) => ipt.req[r].added]_vars

\* the servers started by a PUT that are serving
ServingDynamic == {s \in DOMAIN hss.servers : hss.servers[s].serving}

\* C18: at any instant at most one server started through PUT /servers is
\* serving, and it is the one recorded in the dynamic slot.
C18_OnlySlotServes ==
    /\ Cardinality(ServingDynamic) <= 1
    /\ \A s \in ServingDynamic : hss.DynamicServers = s

\* the three timestamps of a DNSClientState
Times(sv) == <<sv.FirstQueryTime, sv.LastQueryTime, sv.CurrentQueryTime>>

\* handler h takes a step of strategy fn
StrategyStep(h, fn) ==
    /\ dns[h].rebindingFn = fn
    /\ \/ dns[h].pc = "strategy" /\ dns'[h].pc \in {"respond", "rrstore"}
       \/ dns[h].pc = "rrstore" /\ dns'[h].pc = "respond"

\* C19: a step of a strategy changes no timestamp of any session; a step of fs,
\* rd or ma leaves the whole session store unchanged, and a step of rr changes
\* at most LastResponseReboundIPAddr of the session of its question; the
\* timestamps of a stored session change only in the step in which a handler,
\* its strategy having returned, updates them.
C19_StrategyFrame ==
    [][/\ \A h \in Handlers, fn \in KnownStrategies :
             StrategyStep(h, fn) =>
                 /\ Sessions' = Sessions
                 /\ \A s \in DOMAIN Sessions :
                       /\ Times(Session(s)') = Times(Session(s))
                       /\ (fn # "rr" \/ s # dns[h].name.Session) => Session(s)' = Session(s)
                       /\ Session(s)' =
                              [Session(s) EXCEPT !.LastResponseReboundIPAddr =
                                                     Session(s)'.LastResponseReboundIPAddr]
       /\ \A s \in DOMAIN Sessions \cap DOMAIN Sessions' :
             Times(Session(s)') # Times(Session(s)) =>
                 \E h \in Handlers : dns[h].pc = "respond" /\ dns'[h].pc = "loop"]_vars

\* a is the text of an IPv4 or IPv6 address
ValidIP(a) == a.kind \in {"ip4", "ip6"}

\* t is the text of an IP address, a syntactically valid DNS name, or localhost
ValidTarget(t) ==
    \/ ValidIP(t)
    \/ t.kind = "text" /\ (t.val = Str_localhost \/ IsDomainName(t.val))

\* C20: every session in the store has an attacker_ip that is an IPv4 or IPv6
\* literal and a rebound_target that is an IP literal, a syntactically valid DNS
\* name or localhost, and so has every record that the codec has yielded to a
\* handler.
C20_ValidHosts ==
    /\ \A s \in DOMAIN Sessions :
          /\ ValidIP(Session(s).ResponseIPAddr)
          /\ ValidTarget(Session(s).ResponseReboundIPAddr)
    /\ \A h \in Handlers :
          dns[h].pc \in {"insert", "strategy", "rrstore", "respond"} =>
              /\ ValidIP(dns[h].name.ResponseIPAddr)
              /\ ValidTarget(dns[h].name.ResponseReboundIPAddr)

\* the record of the codec as the parsed name should give it
RecordIP(rec) == IPString(rec.ip1)

RecordTarget(rec) ==
    IF rec.host2.kind = "ip" THEN IPString(rec.host2.ip) ELSE Text(rec.host2.name)

\* two host strings are the same string
SameHost(a, b) == a.kind = b.kind /\ a.val = b.val

\* C21: a record encoded as s-<host1>.<host2>-<session>-<strategy>-e.<suffix>, each dash
\* of a second host given as a name doubled, is parsed without an error into the same
\* attacker address, the same target with its dashes restored, the same session and the
\* same strategy tag.
C21_RoundTrip ==
    codec.pc = "decoded" =>
        /\ codec.name.err = ""
        /\ SameHost(codec.name.ResponseIPAddr, RecordIP(codec.rec))
        /\ SameHost(codec.name.ResponseReboundIPAddr, RecordTarget(codec.rec))
        /\ codec.name.Session = codec.rec.session
        /\ codec.name.DNSRebindingStrategy = codec.rec.strategy

\* session id s has a request on its way through IPTablesHandler that has not yet
\* come to its add_rule or to its return
Hijacking(s) ==
    \/ HandedOver /\ http.name.Session = s
    \/ \E r \in HijackRequests : ipt.req[r].session = s /\ ipt.req[r].pc = "add"

\* add_rule was called for a connection of session id s
RuleInstalledFor(s) ==
    \E r \in HijackRequests : ipt.req[r].session = s /\ ipt.req[r].added

\* C22: FirewalledOnce is set for a session only if the HTTP dispatcher has
\* installed a drop rule for a connection of that session: once the request that
\* set the latch has gone through IPTablesHandler, add_rule was called for it.
C22_LatchOnlyWithRule ==
    \A s \in SessionNames : (Latched(s) /\ ~Hijacking(s)) => RuleInstalledFor(s)

\* the record type of the family of an IP address
Family(answer) == IF IsIPv4(answer) THEN TypeA ELSE TypeAAAA

\* answer is an IP address of another family than the type of the question
Mismatch(qtype, answer) == ParsesAsIP(answer) /\ Family(answer) # qtype

\* handler h goes on from the answers of the strategy: it builds the records of
\* the question or returns
Replies(h) ==
    /\ dns[h].pc = "respond"
    /\ dns'[h].pc \in {"loop", "done"}

\* C23: when the strategy returns one IP answer whose family differs from the type
\* of the question, the responder writes the reply as it was before the question,
\* with no record for it, and returns; when the strategy returns two answers, the
\* responder does not return but goes on with the message, and a mismatched
\* answer is among the records it adds for the question.
C23_MismatchAbortsOrIncludes ==
    [][\A h \in Handlers :
          Replies(h) =>
              LET q == dns[h].q
                  answers == dns[h].answers
                  before == Len(dns[h].mAnswer)
              IN  /\ (Len(answers) = 1 /\ Mismatch(q.Qtype, answers[1])) =>
                        /\ dns'[h].pc = "done"
                        /\ dns'[h].wrote = <<dns[h].mAnswer>>
                  /\ Len(answers) = 2 =>
                        /\ dns'[h].pc = "loop"
                        /\ Len(dns'[h].mAnswer) = before + 2
                        /\ SubSeq(dns'[h].mAnswer, 1, before) = dns[h].mAnswer
                        /\ \A i \in 1..2 :
                              Mismatch(q.Qtype, answers[i]) =>
                                  LET rr == dns'[h].mAnswer[before + i]
                                  IN  /\ rr.Name = q.Name
                                      /\ rr.Type = Family(answers[i])
                                      /\ SameHost(rr.Data, answers[i])]_vars

\* a message whose first question got two records, one of them of type AAAA for
\* an A question, has been answered with these alone at a later question whose
\* single answer was of the wrong family
C23_AbortedAfterIncluded ==
    \E h \in Handlers :
        /\ dns[h].pc = "done"
        /\ dns[h].q.Qtype = TypeAAAA
        /\ Decoded[LowerName[dns[h].q.Name]].err = ""
        /\ dns[h].wrote # <<>>
        /\ Len(dns[h].wrote[1]) = 2
        /\ dns[h].wrote[1][1].Type = "A"
        /\ dns[h].wrote[1][2].Type = "AAAA"
        /\ dns[h].wrote[1][2].Name # dns[h].q.Name

\* C24: whenever a strategy, the timestamp update of the responder or the route "/"
\* dereferences the state of a session it has found or inserted, the session is
\* still in the store, whatever an expiry sweep does meanwhile: no goroutine
\* reaches the state of a session that is missing.
C24_SessionPresent ==
    /\ \A h \in Handlers : dns[h].pc # "panic"
    /\ http.served # "panic"

\* handler h takes a step in the handling of question q: it takes q up, or goes on
\* with it
HandlesQuestion(h, q) ==
    /\ q # NoQuestion
    /\ dns[h].pc \notin {"idle", "done"}
    /\ dns'[h] # dns[h]
    /\ \/ dns[h].q = NoQuestion /\ dns'[h].q = q
       \/ dns[h].q = q

\* the session id in the name of question q, empty when the name has none
SessionOf(q) == Decoded[LowerName[q.Name]].Session

\* the fields of a stored session that the handling of a question may change
SameButTimesAndIndex(old, new) ==
    new = [old EXCEPT !.CurrentQueryTime = new.CurrentQueryTime,
                      !.LastQueryTime = new.LastQueryTime,
                      !.LastResponseReboundIPAddr = new.LastResponseReboundIPAddr]

\* C25: a step in the handling of a question for session id X changes nothing in
\* the store except that it may insert X and change CurrentQueryTime,
\* LastQueryTime and LastResponseReboundIPAddr of X: no key is removed, no other
\* key is inserted, every other session is unchanged, and the hosts, the time-out,
\* FirstQueryTime and FirewalledOnce of an X that is in the store are unchanged,
\* whichever question of its message it is.
C25_QuestionFrame ==
    [][\A h \in Handlers, q \in questions :
          HandlesQuestion(h, q) =>
              /\ DOMAIN Sessions \subseteq DOMAIN Sessions'
              /\ DOMAIN Sessions' \subseteq DOMAIN Sessions \cup {SessionOf(q)}
              /\ \A s \in DOMAIN Sessions :
                    IF s = SessionOf(q)
                    THEN SameButTimesAndIndex(Session(s), Session(s)')
                    ELSE Session(s)' = Session(s)]_vars

\* both hosts are IP addresses of another family than the type of the question
HostsMismatch(qtype, host1, host2) == Mismatch(qtype, host1) /\ Mismatch(qtype, host2)

\* the reply to question q is aborted for a type mismatch whatever the strategy
\* picks: the name parses, its tag selects a strategy that returns one answer, and
\* the hosts in the name, and those stored for its session if it is in the store,
\* are all of the wrong family
AbortedForMismatch(q) ==
    LET name == Decoded[LowerName[q.Name]]
    IN  /\ q.Qtype \in {TypeA, TypeAAAA}
        /\ name.err = ""
        /\ TagName(name.DNSRebindingStrategy) \in {"fs", "rr", "rd"}
        /\ HostsMismatch(q.Qtype, name.ResponseIPAddr, name.ResponseReboundIPAddr)
        /\ HasSession(name.Session) =>
               HostsMismatch(q.Qtype, Session(name.Session).ResponseIPAddr,
                             Session(name.Session).ResponseReboundIPAddr)

\* C26: a question whose reply is aborted for a type mismatch leaves the session
\* store as it was before the question: no step of its handling inserts a session
\* or changes LastResponseReboundIPAddr, a timestamp or any other field of a
\* stored session.
C26_AbortedQuestionFrame ==
    [][\A h \in Handlers, q \in questions :
          (HandlesQuestion(h, q) /\ AbortedForMismatch(q)) =>
              /\ DOMAIN Sessions' = DOMAIN Sessions
              /\ \A s \in DOMAIN Sessions : Session(s)' = Session(s)]_vars

====
